---- MODULE Spec2Model ----
(***************************************************************************)
(* Model of the Wi-Fi adapter test application: the Tkinter orchestrator   *)
(* HardwareTestApp of app/gui.py, the engine functions of                  *)
(* app/test_engine.py it calls and the report store of                     *)
(* app/excel_writer.py.                                                    *)
(*                                                                         *)
(* The host (device registry, nmcli/netsh, address tables) is outside the  *)
(* program: every call into it is an input drawn from the outcomes that    *)
(* call can have.  Every Tk callback runs to completion on the single GUI  *)
(* thread; run_all_tests is split at its loop iterations (pc, batchIdx),   *)
(* and no other callback runs between them (root.update_idletasks()        *)
(* handles redraws only, the save prompt is modal).                        *)
(***************************************************************************)
EXTENDS Integers, Sequences, FiniteSets, TLC

VARIABLES
    platform,           \* sys.platform branch of test_engine: "linux" | "win"
    interfaces,         \* self.interfaces: list of interface names
    test_results,       \* self.test_results: dict iface -> status
    auto_save_enabled,  \* self.auto_save_enabled
    simulate_result,    \* self.simulate_result
    workbook,           \* REPORT_FILE: [exists, rows]
    pc,                 \* "idle" | "batch" (inside run_all_tests' loop)
    batchIdx,           \* 1-based position of run_all_tests' loop
    last,               \* what the last callback step did (history)
    host,               \* what test_engine leaves on the host: the stored
                        \* WLAN profiles and the temporary files on disk
    call                \* the last test_engine call: inputs, commands, result

vars == <<platform, interfaces, test_results, auto_save_enabled,
          simulate_result, workbook, pc, batchIdx, last, host, call>>

---------------------------------------------------------------------------
(* Bounds *)

NumHandles == 2      \* interface names the host can show: wlan0, wlan1
MaxRows == 1         \* the report is followed until it holds MaxRows data rows
MaxAppends == 3      \* append_result calls followed when it is taken alone

---------------------------------------------------------------------------
(* Values *)

Pending == "Pending"
PASS == "PASS"
FAIL == "FAIL"
Terminal == {PASS, FAIL}
Outcomes == {Pending, PASS, FAIL}

IfaceName(i) == "wlan" \o ToString(i)
Handles == {IfaceName(i) : i \in 0..(NumHandles - 1)}

Range(s) == {s[k] : k \in 1..Len(s)}

RECURSIVE SeqsOver(_, _)
\* the duplicate-free sequences over S of length n
SeqsOver(S, n) ==
    IF n = 0 THEN {<<>>}
    ELSE UNION {{Append(s, h) : h \in S \ Range(s)} : s \in SeqsOver(S, n - 1)}

\* scan_interfaces(): the names of the matching adapters, in the host's
\* enumeration order; possibly empty.
scan_interfaces == UNION {SeqsOver(Handles, n) : n \in 0..NumHandles}

\* The Windows scan raises RuntimeError when PowerShell fails or its output
\* is no JSON; the Linux scan has no failure path of its own.
ScanCanRaise == platform = "win"

\* simulate_result: refresh_interfaces uses a hard-coded list
SimulatedInterfaces == <<IfaceName(0), IfaceName(1)>>

---------------------------------------------------------------------------
(* test_engine: MAC address helpers *)

HexDigit == <<"0","1","2","3","4","5","6","7","8","9","a","b","c","d","e","f">>

\* f"{b:02x}"
Hex2(b) == HexDigit[(b \div 16) + 1] \o HexDigit[(b % 16) + 1]

\* the results of the three random.randint(0x00, 0xFF) calls that are tried:
\* both ends of the range, and a draw that mixes one- and two-digit bytes
RandBytes == {<<0, 0, 0>>, <<255, 255, 255>>, <<0, 255, 16>>}

\* random_mac() with the three random.randint results r
random_mac(r) ==
    Hex2(2) \o ":" \o Hex2(0) \o ":" \o Hex2(0) \o ":"
        \o Hex2(r[1]) \o ":" \o Hex2(r[2]) \o ":" \o Hex2(r[3])

RandomMacs == {random_mac(r) : r \in RandBytes}

\* the host's link-layer address of an interface (what AF_LINK reports)
LinkAddr(iface) == "aa:bb:cc:" \o iface

Unknown == "Unknown"

\* The outcomes of get_mac(iface): the address, "Unknown" when the interface
\* has no link-layer entry (on Windows also when it is gone), and on Linux
\* "raise": netifaces.ifaddresses raises ValueError for a name that is no
\* interface of the host.
get_mac(iface) ==
    {LinkAddr(iface), Unknown} \cup (IF platform = "linux" THEN {"raise"} ELSE {})

\* The outcomes of check_ip(iface); "raise" as for get_mac.
check_ip ==
    {"true", "false"} \cup (IF platform = "linux" THEN {"raise"} ELSE {})

\* The outcomes of connect_wifi(iface, ssid, password): every
\* SubprocessError (a failing or timed-out command) is caught and gives False.
connect_wifi == BOOLEAN

---------------------------------------------------------------------------
(* excel_writer *)

Header == <<"Timestamp", "MAC", "Status">>
Now == "ts"      \* datetime.now().strftime(...)

\* initialize_workbook without the os.path.exists test
initialize_workbook_always(wb) == [exists |-> TRUE, rows |-> <<Header>>]

initialize_workbook(wb) ==
    IF ~wb.exists THEN [exists |-> TRUE, rows |-> <<Header>>] ELSE wb

append_result(wb, mac, status) ==
    LET w == initialize_workbook(wb)
    IN  [w EXCEPT !.rows = Append(@, <<Now, mac, status>>)]

\* data rows of the report (all rows but the header)
DataRows(wb) == IF wb.exists THEN Len(wb.rows) - 1 ELSE 0

---------------------------------------------------------------------------
(* gui.py: HardwareTestApp, the parts of its callbacks that compute state *)

\* dict.get(key, default)
Get(d, key, default) == IF key \in DOMAIN d THEN d[key] ELSE default

\* dict store d[key] = value
Put(d, key, value) == (key :> value) @@ d

\* InitStatus as app_gui.py's refresh_interfaces has it: no status is
\* assigned at discovery
InitStatusNone(results, found) == results

\* refresh_interfaces, the loop of lines 288-297: every found interface gets
\* the status "Pending"; the dict is not cleared, so the entries of names
\* that were not found stay as they are.
InitStatus(results, found) ==
    [h \in (DOMAIN results) \cup Range(found) |->
        IF h \in Range(found) THEN Pending ELSE results[h]]

\* TestStatus that records only a pass and leaves a failed adapter "Pending"
TestStatusNoFail(sim, ok, ip) ==
    IF sim THEN PASS
    ELSE IF ok /\ ip = "true" THEN PASS ELSE Pending

\* TestStatus with the IP check dropped from the verdict
TestStatusConnectOnly(sim, ok, ip) ==
    IF sim THEN PASS
    ELSE IF ok THEN PASS ELSE FAIL

\* test_interface, lines 302-310: the status of one test.  ip is read only
\* when connect returned true ("ok and check_ip(iface)").
TestStatus(sim, ok, ip) ==
    IF sim THEN PASS
    ELSE IF ok /\ ip = "true" THEN PASS ELSE FAIL

\* test_interface: check_ip is called, and raises
TestRaises(sim, ok, ip) == ~sim /\ ok /\ ip = "raise"

\* AllFinished with any(...) in the place of all(...)
AllFinishedAny(results) == \E h \in DOMAIN results : results[h] \in Terminal

\* test_interface, line 319: all(status in ("PASS","FAIL") for status in
\* self.test_results.values())
AllFinished(results) == \A h \in DOMAIN results : results[h] \in Terminal

RECURSIVE SaveFrom(_, _, _, _, _)
\* save_results, the loop of lines 353-356 from position k on; macs[k] is
\* the outcome of get_mac / random_mac for ifs[k].  A raising get_mac ends
\* the loop (and macs) with the rows appended so far.
SaveFrom(wb, ifs, results, macs, k) ==
    IF k > Len(ifs) \/ k > Len(macs) THEN wb
    ELSE IF macs[k] = "raise" THEN wb
    ELSE SaveFrom(append_result(wb, macs[k], Get(results, ifs[k], Unknown)),
                  ifs, results, macs, k + 1)

\* a sequence back to front
Rev(q) == [k \in 1..Len(q) |-> q[Len(q) + 1 - k]]

\* save_results walking the interfaces back to front
save_results_reversed(wb, ifs, results, macs) ==
    SaveFrom(wb, Rev(ifs), results, Rev(macs), 1)

\* save_results, lines 352-356: one append_result per interface, in the
\* order of self.interfaces
save_results(wb, ifs, results, macs) == SaveFrom(wb, ifs, results, macs, 1)

\* the number of append_result calls save_results makes
Appended(ifs, macs) == Cardinality({k \in 1..Len(macs) : macs[k] # "raise"})

SaveRaises(macs) == \E k \in 1..Len(macs) : macs[k] = "raise"

RECURSIVE MacInputsFrom(_, _, _)
MacInputsFrom(ifs, sim, k) ==
    IF k > Len(ifs) THEN {<<>>}
    ELSE {<<m>> \o rest :
            m \in (IF sim THEN RandomMacs ELSE get_mac(ifs[k]) \ {"raise"}),
            rest \in MacInputsFrom(ifs, sim, k + 1)}
         \cup (IF ~sim /\ "raise" \in get_mac(ifs[k]) THEN {<<"raise">>}
               ELSE {})

\* MacInputs with every MAC queried from the host, simulated or not
MacInputsQueried(ifs, sim) == MacInputsFrom(ifs, FALSE, 1)

\* the outcomes of the MAC lookups of one save_results call: get_mac(i), or
\* random_mac() when results are simulated, for every i of ifs up to the
\* first lookup that raises
MacInputs(ifs, sim) == MacInputsFrom(ifs, sim, 1)

\* the history record of a callback step
\*   op         the callback: "init", "refresh", "configure", "test",
\*              "run_all_tests", "save"
\*   tested     the interfaces the callback has called test_interface for
\*   flipped    that call replaced a PASS by FAIL or a FAIL by PASS
\*   ok, ip     what connect_wifi and check_ip returned in that call
\*              (ip "-": check_ip was not called)
\*   signalled  that call found all tests finished (line 319) and went on
\*              to save_results() or the save prompt
\*   signals    how often the callback did so
\*   appended   the append_result calls of the callback
\*   raised     the call that ended the callback with an exception:
\*              "scan", "check_ip", "get_mac", or "none"
\*   calls      the engine functions that step called, of connect_wifi,
\*              check_ip, get_mac, random_mac
Did(op, tested, flipped, ok, ip, signalled, signals, appended, raised, calls) ==
    [op |-> op, tested |-> tested, flipped |-> flipped, ok |-> ok, ip |-> ip,
     signalled |-> signalled, signals |-> signals,
     appended |-> appended, raised |-> raised, calls |-> calls]

\* the engine functions one test_interface call uses for the test itself
\* (lines 302-306)
TestCalls(sim, ok) ==
    IF sim THEN {}
    ELSE {"connect_wifi"} \cup (IF ok THEN {"check_ip"} ELSE {})

\* the engine function one save_results call uses for the MACs (line 355)
SaveCalls(sim, macs) ==
    IF macs = <<>> THEN {} ELSE IF sim THEN {"random_mac"} ELSE {"get_mac"}

\* the history record of a callback that tests nothing and does not save
DidOnly(op, raised) ==
    Did(op, <<>>, FALSE, FALSE, "-", FALSE, 0, 0, raised, {})

\* test_engine has left nothing on the host
NoHost == [profiles |-> {}, files |-> {}]

\* the record of a test_engine (or excel_writer) call
\*   op      the function called, "-" for none
\*   iface   its interface argument, "-" for none
\*   arg     its ssid argument, "-" for none
\*   input   what the host answered: command outcomes, registry records,
\*           the address entry of the interface
\*   cmds    the external commands the call ran, in order
\*   ret     "true", "false", "value" (see value) or "raise"
\*   value   the sequence or string returned, <<>> for none
\*   wrote   the call wrote a temporary file
\*   repeat  the call before was the same connect_wifi call and returned
\*           true
Called(op, iface, arg, input, cmds, ret, value, wrote, repeat) ==
    [op |-> op, iface |-> iface, arg |-> arg, input |-> input, cmds |-> cmds,
     ret |-> ret, value |-> value, wrote |-> wrote, repeat |-> repeat]

NoCall == Called("-", "-", "-", <<>>, <<>>, "-", <<>>, FALSE, FALSE)

\* the report is still followed
Room == DataRows(workbook) < MaxRows

---------------------------------------------------------------------------
(* The state after construction: __init__ loads the configuration and runs *)
(* refresh_interfaces() on the empty dict.                                 *)

Init ==
    /\ platform \in {"linux", "win"}
    /\ auto_save_enabled \in BOOLEAN
    /\ simulate_result \in BOOLEAN
    /\ interfaces \in (IF simulate_result THEN {SimulatedInterfaces}
                       ELSE scan_interfaces)
    /\ test_results = InitStatus(<<>>, interfaces)
    /\ workbook \in {[exists |-> FALSE, rows |-> <<>>],
                     [exists |-> TRUE, rows |-> <<Header>>]}
    /\ pc = "idle"
    /\ batchIdx = 0
    /\ last = DidOnly("init", "none")
    /\ host = NoHost
    /\ call = NoCall

---------------------------------------------------------------------------
(* Callbacks *)

\* what refresh_interfaces() can find: the hard-coded list when results are
\* simulated, a scan of the host otherwise
Found(sim) == IF sim THEN {SimulatedInterfaces} ELSE scan_interfaces

\* refresh_interfaces() whose scan returned found
refresh_interfaces(found) ==
    /\ interfaces' = found
    /\ test_results' = InitStatus(test_results, found)

\* refresh_interfaces() whose scan raised: nothing but clear_log() has run
refresh_raises(sim) ==
    /\ ScanCanRaise
    /\ ~sim
    /\ UNCHANGED <<interfaces, test_results>>

\* The Rescan button: refresh_interfaces
Rescan ==
    /\ pc = "idle"
    /\ Room
    /\ \/ /\ \E found \in Found(simulate_result) : refresh_interfaces(found)
          /\ last' = DidOnly("refresh", "none")
       \/ /\ refresh_raises(simulate_result)
          /\ last' = DidOnly("refresh", "scan")
    /\ UNCHANGED <<host, call>>
    /\ UNCHANGED <<platform, auto_save_enabled, simulate_result, workbook,
                   pc, batchIdx>>

\* test_interface(iface) as a step of the callback op; tested, signals and
\* appended are what the callback did before this step.
test_interface(op, iface, tested, signals, appended) ==
    \E ok \in (IF simulate_result THEN {FALSE} ELSE connect_wifi) :
    \E ip \in (IF ~simulate_result /\ ok THEN check_ip ELSE {"-"}) :
    LET status == TestStatus(simulate_result, ok, ip)
        results == Put(test_results, iface, status)
        signal == AllFinished(results)
        now == Append(tested, iface)
        prev == Get(test_results, iface, "-")
        flipped == prev \in Terminal /\ prev # status
    IN  IF TestRaises(simulate_result, ok, ip)
        THEN /\ last' = Did(op, now, FALSE, ok, ip, FALSE, signals, appended,
                            "check_ip", TestCalls(simulate_result, ok))
             /\ UNCHANGED <<test_results, workbook>>
        ELSE /\ test_results' = results
             /\ \E yes \in (IF signal /\ ~auto_save_enabled
                            THEN BOOLEAN ELSE {auto_save_enabled}) :
                \E macs \in (IF signal /\ yes
                             THEN MacInputs(interfaces, simulate_result)
                             ELSE {<<>>}) :
                IF signal /\ yes
                THEN /\ workbook' = save_results(workbook, interfaces,
                                                 results, macs)
                     /\ last' = Did(op, now, flipped, ok, ip, TRUE, signals + 1,
                                    appended + Appended(interfaces, macs),
                                    IF SaveRaises(macs) THEN "get_mac"
                                    ELSE "none",
                                    TestCalls(simulate_result, ok) \cup
                                        SaveCalls(simulate_result, macs))
                ELSE /\ UNCHANGED workbook
                     /\ last' = Did(op, now, flipped, ok, ip, signal,
                                    signals + (IF signal THEN 1 ELSE 0),
                                    appended, "none",
                                    TestCalls(simulate_result, ok))

\* An interface button: test_interface(iface)
TestButton ==
    /\ pc = "idle"
    /\ Room
    /\ \E iface \in Range(interfaces) :
          test_interface("test", iface, <<>>, 0, 0)
    /\ UNCHANGED <<host, call>>
    /\ UNCHANGED <<platform, interfaces, auto_save_enabled, simulate_result,
                   pc, batchIdx>>

\* RunAllTests without the early return of lines 327-329 and with the
\* completion check after the loop: with no interface found, all() over no
\* status is true and the save is reached.
RunAllTestsChecksAfterLoop ==
    /\ pc = "idle"
    /\ Room
    /\ \/ \E found \in Found(simulate_result) :
            /\ refresh_interfaces(found)
            /\ pc' = IF found = <<>> THEN "idle" ELSE "batch"
            /\ batchIdx' = IF found = <<>> THEN 0 ELSE 1
            /\ last' = IF found = <<>>
                       THEN Did("run_all_tests", <<>>, FALSE, FALSE, "-",
                                AllFinished(<<>>), 1, 0, "none", {})
                       ELSE DidOnly("run_all_tests", "none")
       \/ /\ refresh_raises(simulate_result)
          /\ last' = DidOnly("run_all_tests", "scan")
          /\ UNCHANGED <<pc, batchIdx>>
    /\ UNCHANGED <<host, call>>
    /\ UNCHANGED <<platform, auto_save_enabled, simulate_result, workbook>>

\* The Test All button, up to the loop: run_all_tests refreshes, and
\* returns after a warning when no interface was found.
RunAllTests ==
    /\ pc = "idle"
    /\ Room
    /\ \/ \E found \in Found(simulate_result) :
            /\ refresh_interfaces(found)
            /\ pc' = IF found = <<>> THEN "idle" ELSE "batch"
            /\ batchIdx' = IF found = <<>> THEN 0 ELSE 1
            /\ last' = DidOnly("run_all_tests", "none")
       \/ /\ refresh_raises(simulate_result)
          /\ last' = DidOnly("run_all_tests", "scan")
          /\ UNCHANGED <<pc, batchIdx>>
    /\ UNCHANGED <<host, call>>
    /\ UNCHANGED <<platform, auto_save_enabled, simulate_result, workbook>>

\* One iteration of run_all_tests' loop: test_interface(interfaces[batchIdx]).
\* An exception leaves the loop and the callback.
BatchStep ==
    /\ pc = "batch"
    /\ Room
    /\ test_interface("run_all_tests", interfaces[batchIdx],
                      last.tested, last.signals, last.appended)
    /\ IF last'.raised = "none" /\ batchIdx < Len(interfaces)
       THEN /\ pc' = "batch"
            /\ batchIdx' = batchIdx + 1
       ELSE /\ pc' = "idle"
            /\ batchIdx' = 0
    /\ UNCHANGED <<host, call>>
    /\ UNCHANGED <<platform, interfaces, auto_save_enabled, simulate_result>>

\* File > Save Results: prompt_save_results(), then save_results() on Yes
SaveMenu ==
    /\ pc = "idle"
    /\ Room
    /\ \E yes \in BOOLEAN :
       \E macs \in (IF yes THEN MacInputs(interfaces, simulate_result)
                    ELSE {<<>>}) :
          IF yes
          THEN /\ workbook' = save_results(workbook, interfaces, test_results,
                                           macs)
               /\ last' = Did("save", <<>>, FALSE, FALSE, "-", FALSE, 0,
                              Appended(interfaces, macs),
                              IF SaveRaises(macs) THEN "get_mac" ELSE "none",
                              SaveCalls(simulate_result, macs))
          ELSE /\ UNCHANGED workbook
               /\ last' = DidOnly("save", "none")
    /\ UNCHANGED <<host, call>>
    /\ UNCHANGED <<platform, interfaces, test_results, auto_save_enabled,
                   simulate_result, pc, batchIdx>>

\* Configure > OK: on_ok writes the settings, load_config() reads them back,
\* update_widgets() runs refresh_interfaces() under the new settings.
Configure ==
    /\ pc = "idle"
    /\ Room
    /\ \E auto \in BOOLEAN : \E sim \in BOOLEAN :
          /\ auto_save_enabled' = auto
          /\ simulate_result' = sim
          /\ \/ /\ \E found \in Found(sim) : refresh_interfaces(found)
                /\ last' = DidOnly("configure", "none")
             \/ /\ refresh_raises(sim)
                /\ last' = DidOnly("configure", "scan")
    /\ UNCHANGED <<host, call>>
    /\ UNCHANGED <<platform, workbook, pc, batchIdx>>

Next ==
    \/ Rescan
    \/ TestButton
    \/ RunAllTests
    \/ BatchStep
    \/ SaveMenu
    \/ Configure

Spec == Init /\ [][Next]_vars

---------------------------------------------------------------------------
(* test_engine.py, its functions taken alone.  What the host answers (the   *)
(* exit of each external command, the registry records, the address entry   *)
(* of the interface) is the input of a call; what a call leaves on the host *)
(* (stored WLAN profiles, temporary files) is kept in host.                 *)

\* the ssid arguments tried
SSIDs == {"lab", "guest"}

\* How subprocess.run(..., check=True) ends: "ok", or "fail"
\* (CalledProcessError, a SubprocessError).
CmdOutcomes == {"ok", "fail"}

\* With timeout=...: also "timeout" (TimeoutExpired, a SubprocessError).
TimedCmdOutcomes == {"ok", "fail", "timeout"}

\* the three nmcli commands of the Linux connect_wifi, lines 29-34
NmcliSteps ==
    <<"nmcli radio wifi on", "nmcli device wifi rescan",
      "nmcli device wifi connect">>

RECURSIVE RunUnchecked(_, _, _)
\* RunChecked with check=True and the timeout left out: every command is
\* run whatever the one before did
RunUnchecked(steps, outs, k) ==
    IF k > Len(steps) THEN <<>>
    ELSE <<steps[k]>> \o RunUnchecked(steps, outs, k + 1)

RECURSIVE RunChecked(_, _, _)
\* the commands of steps run from position k on inside one try block: the
\* first that does not end "ok" raises and ends the block
RunChecked(steps, outs, k) ==
    IF k > Len(steps) THEN <<>>
    ELSE IF outs[k] = "ok"
         THEN <<steps[k]>> \o RunChecked(steps, outs, k + 1)
         ELSE <<steps[k]>>

\* Linux connect_wifi, lines 27-37; outs[k] is how the k-th command ends.
\* True is returned after the third command, False from the except clause.
connect_wifi_linux(outs) ==
    LET cmds == RunChecked(NmcliSteps, outs, 1)
    IN  [cmds |-> cmds,
         ret |-> IF Len(cmds) = Len(NmcliSteps) /\ outs[Len(cmds)] = "ok"
                 THEN "true" ELSE "false"]

\* the temporary file of tempfile.NamedTemporaryFile(suffix=".xml"), line 123
TmpXml == "tmp.xml"

\* netsh wlan show profiles interface=iface, lines 89-96: the names of the
\* profiles stored for iface; "" when the command failed.  (ssid arguments
\* are taken in lower case, so .lower() changes nothing.)
ShowProfiles(profiles, iface, out) ==
    IF out = "ok" THEN {p[2] : p \in {q \in profiles : q[1] = iface}}
    ELSE {}

\* ProfileListed that never finds the profile
ProfileNeverListed(output, ssid) == FALSE

\* line 99: ssid.lower() in profiles_output
ProfileListed(output, ssid) == ssid \in output

\* netsh wlan add profile: the host keeps one profile per name and
\* interface, a second add replaces the first
AddProfile(profiles, iface, ssid) == profiles \cup {<<iface, ssid>>}

\* RemoveTmp done only after a successful install
RemoveTmpOnSuccess(files, f, add) == IF add = "ok" THEN files \ {f} ELSE files

\* the finally clause, lines 135-137: os.remove(xml_path)
RemoveTmp(files, f, add) == files \ {f}

\* ConnectResult whose except clause misses TimeoutExpired
ConnectResultTimeoutRaises(conn) ==
    IF conn = "ok" THEN "true" ELSE IF conn = "timeout" THEN "raise" ELSE "false"

\* lines 142-152: netsh wlan connect, True, or False on a SubprocessError
ConnectResult(conn) == IF conn = "ok" THEN "true" ELSE "false"

\* Windows connect_wifi, lines 84-152, on the host state h; outs is how
\* show profiles, add profile and connect end (the outcome of a command
\* that is not run is not read).
connect_wifi_windows(h, iface, ssid, outs) ==
    LET output == ShowProfiles(h.profiles, iface, outs[1])
        create == ~ProfileListed(output, ssid)
        written == IF create THEN h.files \cup {TmpXml} ELSE h.files
        installed == create /\ outs[2] = "ok"
        aborted == create /\ outs[2] # "ok"
    IN  [host |-> [profiles |-> IF installed
                                THEN AddProfile(h.profiles, iface, ssid)
                                ELSE h.profiles,
                   files |-> IF create THEN RemoveTmp(written, TmpXml, outs[2])
                             ELSE written],
         cmds |-> <<"netsh wlan show profiles">>
                  \o (IF create THEN <<"netsh wlan add profile">> ELSE <<>>)
                  \o (IF aborted THEN <<>> ELSE <<"netsh wlan connect">>),
         ret |-> IF aborted THEN "false" ELSE ConnectResult(outs[3]),
         wrote |-> create]

\* the adapter records the host can list: every order of every set of
\* names, each record matching the adapter identity (usb) or not
Registries ==
    {[k \in 1..Len(s) |-> [name |-> s[k], usb |-> k \in U]] :
        s \in scan_interfaces, U \in SUBSET (1..NumHandles)}

\* the names of the records of recs that match the identity, in order
RECURSIVE MatchingNames(_, _)
MatchingNames(recs, k) ==
    IF k > Len(recs) THEN <<>>
    ELSE (IF recs[k].usb THEN <<recs[k].name>> ELSE <<>>)
         \o MatchingNames(recs, k + 1)

\* Linux scan_interfaces, lines 20-25: list_devices filters by vendor and
\* model id, the sys_name of every device left is returned
scan_interfaces_linux(recs) ==
    [ret |-> "value", value |-> MatchingNames(recs, 1)]

\* PowerShell's ConvertTo-Json -Compress on the records piped to it: no
\* output for no record, a bare object for one, an array for more
ConvertToJson(recs) ==
    IF Len(recs) = 0 THEN [kind |-> "empty", data |-> <<>>]
    ELSE IF Len(recs) = 1 THEN [kind |-> "object", data |-> recs[1]]
    ELSE [kind |-> "array", data |-> recs]

\* Windows scan_interfaces, lines 53-82: a failed or timed-out command and
\* output that json.loads rejects (the empty string) raise RuntimeError; a
\* bare object is wrapped into a list; the names of the records whose
\* description matches are returned
scan_interfaces_windows(cmd, recs) ==
    LET stdout == ConvertToJson(recs)
        data == IF stdout.kind = "object" THEN <<stdout.data>> ELSE stdout.data
    IN  IF cmd # "ok" \/ stdout.kind = "empty"
        THEN [ret |-> "raise", value |-> <<>>]
        ELSE [ret |-> "value", value |-> MatchingNames(data, 1)]

\* the host's address entry of an interface name: whether there is such an
\* interface, and the address families it has addresses of
AddrEntries ==
    {[exists |-> FALSE, families |-> {}]}
    \cup {[exists |-> TRUE, families |-> f] : f \in SUBSET {"AF_LINK", "AF_INET"}}

\* Linux check_ip, lines 39-43: netifaces.ifaddresses raises ValueError for
\* a name that is no interface
check_ip_linux(e) ==
    IF ~e.exists THEN "raise"
    ELSE IF "AF_INET" \in e.families THEN "true" ELSE "false"

\* Windows check_ip, lines 155-157: psutil.net_if_addrs().get(iface, [])
check_ip_windows(e) ==
    LET addrs == IF e.exists THEN e.families ELSE {}
    IN  IF "AF_INET" \in addrs THEN "true" ELSE "false"

\* Linux get_mac, lines 45-48
get_mac_linux(iface, e) ==
    IF ~e.exists THEN [ret |-> "raise", value |-> <<>>]
    ELSE [ret |-> "value",
          value |-> IF "AF_LINK" \in e.families THEN LinkAddr(iface)
                    ELSE Unknown]

\* Windows get_mac, lines 159-170
get_mac_windows(iface, e) ==
    LET addrs == IF e.exists THEN e.families ELSE {}
    IN  [ret |-> "value",
         value |-> IF "AF_LINK" \in addrs THEN LinkAddr(iface) ELSE Unknown]

\* the state of the orchestrator when the engine or the report is taken
\* alone: no window, nothing discovered
NoApp ==
    /\ interfaces = <<>>
    /\ test_results = <<>>
    /\ auto_save_enabled = FALSE
    /\ simulate_result = FALSE
    /\ pc = "idle"
    /\ batchIdx = 0
    /\ last = DidOnly("init", "none")

EngineInit ==
    /\ platform \in {"linux", "win"}
    /\ NoApp
    /\ workbook = [exists |-> FALSE, rows |-> <<>>]
    /\ host = NoHost
    /\ call = NoCall

\* connect_wifi(iface, ssid, password)
ConnectWifi ==
    /\ \E iface \in Handles : \E ssid \in SSIDs :
       \E outs \in CmdOutcomes \X CmdOutcomes \X TimedCmdOutcomes :
          LET repeat == /\ call.op = "connect_wifi"
                        /\ call.iface = iface
                        /\ call.arg = ssid
                        /\ call.ret = "true"
          IN  IF platform = "linux"
              THEN LET r == connect_wifi_linux(outs)
                   IN  /\ call' = Called("connect_wifi", iface, ssid, outs,
                                         r.cmds, r.ret, <<>>, FALSE, repeat)
                       /\ UNCHANGED host
              ELSE LET r == connect_wifi_windows(host, iface, ssid, outs)
                   IN  /\ call' = Called("connect_wifi", iface, ssid, outs,
                                         r.cmds, r.ret, <<>>, r.wrote, repeat)
                       /\ host' = r.host
    /\ UNCHANGED <<platform, interfaces, test_results, auto_save_enabled,
                   simulate_result, workbook, pc, batchIdx, last>>

\* scan_interfaces()
ScanInterfaces ==
    /\ \E recs \in Registries :
       \E cmd \in (IF platform = "linux" THEN {"ok"} ELSE TimedCmdOutcomes) :
          LET r == IF platform = "linux" THEN scan_interfaces_linux(recs)
                   ELSE scan_interfaces_windows(cmd, recs)
          IN  call' = Called("scan_interfaces", "-", "-",
                             [cmd |-> cmd, recs |-> recs],
                             IF platform = "linux" THEN <<>>
                             ELSE <<"powershell Get-NetAdapter">>,
                             r.ret, r.value, FALSE, FALSE)
    /\ UNCHANGED <<platform, interfaces, test_results, auto_save_enabled,
                   simulate_result, workbook, pc, batchIdx, last, host>>

\* check_ip(iface)
CheckIp ==
    /\ \E iface \in Handles : \E e \in AddrEntries :
          call' = Called("check_ip", iface, "-", e, <<>>,
                         IF platform = "linux" THEN check_ip_linux(e)
                         ELSE check_ip_windows(e),
                         <<>>, FALSE, FALSE)
    /\ UNCHANGED <<platform, interfaces, test_results, auto_save_enabled,
                   simulate_result, workbook, pc, batchIdx, last, host>>

\* get_mac(iface)
GetMac ==
    /\ \E iface \in Handles : \E e \in AddrEntries :
          LET r == IF platform = "linux" THEN get_mac_linux(iface, e)
                   ELSE get_mac_windows(iface, e)
          IN  call' = Called("get_mac", iface, "-", e, <<>>, r.ret, r.value,
                             FALSE, FALSE)
    /\ UNCHANGED <<platform, interfaces, test_results, auto_save_enabled,
                   simulate_result, workbook, pc, batchIdx, last, host>>

EngineNext ==
    \/ ConnectWifi
    \/ ScanInterfaces
    \/ CheckIp
    \/ GetMac

EngineSpec == EngineInit /\ [][EngineNext]_vars

---------------------------------------------------------------------------
(* excel_writer.py taken alone *)

\* the mac and status arguments tried
ReportMacs == {LinkAddr(IfaceName(0)), Unknown}
ReportStatuses == {PASS, FAIL}

ReportInit ==
    /\ platform = "linux"
    /\ NoApp
    /\ workbook \in {[exists |-> FALSE, rows |-> <<>>],
                     [exists |-> TRUE, rows |-> <<Header>>]}
    /\ host = NoHost
    /\ call = NoCall

\* append_result(mac, status)
AppendResult ==
    /\ DataRows(workbook) < MaxAppends
    /\ \E mac \in ReportMacs : \E status \in ReportStatuses :
          /\ workbook' = append_result(workbook, mac, status)
          /\ call' = Called("append_result", "-", "-", <<mac, status>>, <<>>,
                            "value", <<>>, FALSE, FALSE)
    /\ UNCHANGED <<platform, interfaces, test_results, auto_save_enabled,
                   simulate_result, pc, batchIdx, last, host>>

\* initialize_workbook()
InitializeWorkbook ==
    /\ workbook' = initialize_workbook(workbook)
    /\ call' = Called("initialize_workbook", "-", "-", <<>>, <<>>, "value",
                      <<>>, FALSE, FALSE)
    /\ UNCHANGED <<platform, interfaces, test_results, auto_save_enabled,
                   simulate_result, pc, batchIdx, last, host>>

ReportNext ==
    \/ AppendResult
    \/ InitializeWorkbook

ReportSpec == ReportInit /\ [][ReportNext]_vars

---------------------------------------------------------------------------
(* Properties *)

\* the callbacks that run test_interface
TestOps == {"test", "run_all_tests"}

\* the interface of the last test_interface call
LastTested == last.tested[Len(last.tested)]

\* the last step was a test_interface call that assigned a status
TestCompleted ==
    /\ last.op \in TestOps
    /\ last.tested # <<>>
    /\ last.raised # "check_ip"

\* C1: with simulation off, a completed test of an adapter gives PASS if and
\* only if connect returned true and has_ipv4 returned true; connect false
\* gives FAIL (the IP check is not even run); connect true with has_ipv4
\* false gives FAIL.
C1_TruthTable ==
    (TestCompleted /\ ~simulate_result) =>
        /\ test_results[LastTested] \in Terminal
        /\ (test_results[LastTested] = PASS) <=> (last.ok /\ last.ip = "true")
        /\ ~last.ok => (test_results[LastTested] = FAIL /\ last.ip = "-")
        /\ (last.ok /\ last.ip = "false") => test_results[LastTested] = FAIL

C1_Witness ==
    /\ TestCompleted
    /\ ~simulate_result
    /\ last.ok
    /\ last.ip = "false"
    /\ test_results[LastTested] = FAIL

\* C2: every interface of the current generation has an outcome, and it is
\* one of Pending, PASS, FAIL.
C2_EveryInterfaceHasOutcome ==
    \A k \in 1..Len(interfaces) :
        /\ interfaces[k] \in DOMAIN test_results
        /\ test_results[interfaces[k]] \in Outcomes

C2_Witness ==
    /\ pc = "batch"
    /\ Len(interfaces) = 2
    /\ last.tested = <<interfaces[1]>>
    /\ test_results[interfaces[1]] = PASS
    /\ test_results[interfaces[2]] = Pending

\* the last step was a discovery pass: refresh_interfaces() ran and its scan
\* returned
Refreshed ==
    /\ \/ last.op \in {"init", "refresh", "configure"}
       \/ last.op = "run_all_tests" /\ last.tested = <<>>
    /\ last.raised = "none"

\* C3 as claimed: right after a discovery pass the outcome mapping holds
\* exactly the discovered interfaces, all Pending.
C3_FreshGeneration ==
    Refreshed =>
        /\ DOMAIN test_results = Range(interfaces)
        /\ \A h \in DOMAIN test_results : test_results[h] = Pending

\* C4 as claimed: once an adapter of the generation is PASS or FAIL, no step
\* but a discovery pass changes its outcome.
C4_TerminalIsFinal ==
    [][\A h \in Range(interfaces) :
          (test_results[h] \in Terminal /\ ~Refreshed')
              => test_results'[h] = test_results[h]]_vars

\* C4 as amended: within a generation an outcome is changed only by a
\* completed test of that adapter, which leaves it PASS or FAIL (never back
\* to Pending); a retest may turn PASS into FAIL and FAIL into PASS.
C4_ChangedOnlyByOwnTest ==
    [][\A h \in Range(interfaces) :
          (~Refreshed' /\ test_results'[h] # test_results[h])
              => /\ TestCompleted'
                 /\ LastTested' = h
                 /\ test_results'[h] \in Terminal]_vars

\* a retest through the interface button turned PASS into FAIL
C4_Witness ==
    /\ last.op = "test"
    /\ TestCompleted
    /\ last.flipped
    /\ test_results[LastTested] = FAIL

\* every adapter of the current generation is PASS or FAIL
AllTerminal == \A h \in Range(interfaces) : test_results[h] \in Terminal

\* C5 as claimed: when a test completes and every adapter of the current
\* generation is then PASS or FAIL, that step signals generation-complete.
C5_CompleteIsSignalled ==
    (TestCompleted /\ AllTerminal) => last.signalled

\* run_all_tests has returned (or was left by an exception) after its loop
\* had started
BatchOver ==
    /\ last.op = "run_all_tests"
    /\ last.tested # <<>>
    /\ pc = "idle"

\* C6 as claimed: a batch run ends with every adapter of the generation
\* tested and PASS or FAIL, whatever failed for single adapters.
C6_BatchTestsAll ==
    BatchOver => (last.tested = interfaces /\ AllTerminal)

\* the k-th of the rows the last callback appended to the report
Appended_Row(k) == workbook.rows[Len(workbook.rows) - last.appended + k]

\* C7: a batch run tests the adapters one after another in the order
\* discovery returned them, and its Result Records are appended in that same
\* order: record k carries the status and the MAC of the k-th adapter.
C7_BatchOrder ==
    last.op = "run_all_tests" =>
        /\ Len(last.tested) <= Len(interfaces)
        /\ \A k \in 1..Len(last.tested) : last.tested[k] = interfaces[k]
        /\ pc = "batch" => batchIdx = Len(last.tested) + 1
        /\ last.appended <= Len(interfaces)
        /\ \A k \in 1..last.appended :
              /\ Appended_Row(k)[3] = test_results[interfaces[k]]
              /\ Appended_Row(k)[2] \in
                    (IF simulate_result THEN RandomMacs
                     ELSE {LinkAddr(interfaces[k]), Unknown})

C7_Witness ==
    /\ last.op = "run_all_tests"
    /\ pc = "idle"
    /\ interfaces = <<IfaceName(1), IfaceName(0)>>
    /\ last.tested = interfaces
    /\ last.appended = 2
    /\ Appended_Row(1) = <<Now, LinkAddr(IfaceName(1)), FAIL>>
    /\ Appended_Row(2) = <<Now, LinkAddr(IfaceName(0)), PASS>>

\* C8 as claimed: after a batch run over n >= 1 adapters with auto-save on
\* (and no exception), n Result Records were appended, one per adapter with
\* its final outcome, and generation-complete was signalled exactly once.
C8_BatchSavesAll ==
    (BatchOver /\ auto_save_enabled /\ last.raised = "none") =>
        /\ last.signals = 1
        /\ last.appended = Len(interfaces)
        /\ \A k \in 1..Len(interfaces) :
              Appended_Row(k)[3] = test_results[interfaces[k]]

\* C9 as claimed: every Result Record of the report carries PASS or FAIL.
C9_OnlyTerminalRecords ==
    \A k \in 2..Len(workbook.rows) : workbook.rows[k][3] \in Terminal

\* C10: a batch run whose discovery returned no interface tests nothing,
\* appends nothing, signals nothing and raises nothing.
C10_EmptyBatch ==
    (last.op = "run_all_tests" /\ last.raised # "scan" /\ interfaces = <<>>) =>
        /\ pc = "idle"
        /\ last.tested = <<>>
        /\ ~last.signalled
        /\ last.signals = 0
        /\ last.appended = 0
        /\ last.raised = "none"

C10_Witness ==
    /\ last.op = "run_all_tests"
    /\ last.raised = "none"
    /\ interfaces = <<>>
    /\ DOMAIN test_results # {}
    /\ pc = "idle"

\* what random_mac() returns for the draws of RandBytes, written out:
\* 02:00:00 and three two-digit lower-case hexadecimal bytes
RandomMacForm ==
    {"02:00:00:00:00:00", "02:00:00:ff:ff:ff", "02:00:00:00:ff:10"}

\* C11: with simulation on, a test completes with PASS and calls neither
\* connect_wifi nor check_ip; the records a callback saves carry MACs of
\* random_mac (02:00:00:XX:XX:XX) when simulation is on and MACs of get_mac
\* when it is off, and one callback never uses both sources.
C11_SimulatedRun ==
    /\ (TestCompleted /\ simulate_result) =>
          /\ test_results[LastTested] = PASS
          /\ last.calls \subseteq {"random_mac"}
    /\ (TestCompleted /\ ~simulate_result) => "connect_wifi" \in last.calls
    /\ "get_mac" \in last.calls => ~simulate_result
    /\ "random_mac" \in last.calls => simulate_result
    /\ \A k \in 1..last.appended :
          Appended_Row(k)[2] \in
              (IF simulate_result THEN RandomMacForm
               ELSE {LinkAddr(interfaces[k]), Unknown})

\* a simulated batch run saved two records with random MACs
C11_Witness ==
    /\ simulate_result
    /\ last.op = "run_all_tests"
    /\ last.tested = interfaces
    /\ last.calls = {"random_mac"}
    /\ last.appended = 2
    /\ Appended_Row(1) = <<Now, "02:00:00:00:ff:10", PASS>>
    /\ Appended_Row(2) = <<Now, "02:00:00:ff:ff:ff", PASS>>

\* C20: whenever a test signals generation-complete, or saves or prompts,
\* no adapter of the current generation is Pending.
C20_NoSignalWhilePending ==
    (last.op \in TestOps /\ (last.signalled \/ last.signals > 0
                                \/ last.appended > 0))
        => AllTerminal

\* an interface button completed a generation of two and the prompt was
\* answered No
C20_Witness ==
    /\ last.op = "test"
    /\ last.signalled
    /\ Len(interfaces) = 2
    /\ last.appended = 0
    /\ ~auto_save_enabled

---------------------------------------------------------------------------
(* Properties of the engine and the report taken alone *)

LinuxConnect == call.op = "connect_wifi" /\ platform = "linux"
WinConnect == call.op = "connect_wifi" /\ platform = "win"

\* C12: the Linux connect_wifi runs radio on, rescan and connect in this
\* order, a command is run only if every command before it ended well, the
\* call returns true exactly when all three ended well and false otherwise
\* (also when the last one timed out), and it never raises.
C12_NmcliSequence ==
    LinuxConnect =>
        /\ call.ret \in {"true", "false"}
        /\ (call.ret = "true") <=> (\A k \in 1..3 : call.input[k] = "ok")
        /\ Len(call.cmds) <= 3
        /\ \A k \in 1..Len(call.cmds) : call.cmds[k] = NmcliSteps[k]
        /\ \A k \in 1..3 :
              (k <= Len(call.cmds)) <=>
                  (\A j \in 1..(k - 1) : call.input[j] = "ok")

\* the rescan failed: the connect command was not run, false was returned
C12_Witness ==
    /\ LinuxConnect
    /\ call.input = <<"ok", "fail", "ok">>
    /\ call.cmds = <<NmcliSteps[1], NmcliSteps[2]>>
    /\ call.ret = "false"

\* C13: when the Windows connect_wifi has returned, true or false, the
\* temporary profile file it wrote is not on disk.
C13_NoTmpLeft == WinConnect => host.files = {}

\* the profile file was written, the install failed, false was returned
C13_Witness ==
    /\ WinConnect
    /\ call.wrote
    /\ call.input[2] = "fail"
    /\ call.ret = "false"

AddCmd == "netsh wlan add profile"

C15_EmptyIsNotAnError ==
    (/\ call.op = "scan_interfaces"
     /\ call.input.cmd = "ok"
     /\ \A k \in 1..Len(call.input.recs) : ~call.input.recs[k].usb)
        => (call.ret = "value" /\ call.value = <<>>)

\* C16 as claimed: check_ip never raises, and returns true exactly when the
\* interface has an IPv4 address.
C16_CheckIpNeverRaises ==
    call.op = "check_ip" =>
        /\ call.ret \in {"true", "false"}
        /\ (call.ret = "true") <=> ("AF_INET" \in call.input.families)

\* C17 as claimed: get_mac never raises, it returns the link-layer address
\* or "Unknown".
C17_GetMacNeverRaises ==
    call.op = "get_mac" =>
        /\ call.ret = "value"
        /\ call.value \in {LinkAddr(call.iface), Unknown}

ConnectRun == "netsh wlan connect" \in Range(call.cmds)

\* C19 as claimed: the Windows connect_wifi returns false whenever one of
\* the commands it ran (show profiles, add profile, connect) failed or
\* timed out, and never raises.
C19_AnyFailureIsFalse ==
    WinConnect =>
        /\ call.ret \in {"true", "false"}
        /\ (\/ call.input[1] # "ok"
            \/ call.wrote /\ call.input[2] # "ok"
            \/ ConnectRun /\ call.input[3] # "ok") => call.ret = "false"

\* C19 as amended: false whenever add profile or connect failed or timed
\* out, never an exception, true exactly when the connect command ran and
\* ended well; a failed show profiles does not by itself give false.
C19_InstallOrConnectFailureIsFalse ==
    WinConnect =>
        /\ call.ret \in {"true", "false"}
        /\ (\/ call.wrote /\ call.input[2] # "ok"
            \/ ConnectRun /\ call.input[3] # "ok") => call.ret = "false"
        /\ (call.ret = "true") <=> (ConnectRun /\ call.input[3] = "ok")

\* the listing failed, the profile was installed, the connect timed out
C19_Witness ==
    /\ WinConnect
    /\ call.input = <<"fail", "ok", "timeout">>
    /\ call.cmds = <<"netsh wlan show profiles", AddCmd, "netsh wlan connect">>
    /\ call.ret = "false"

====
